---- MODULE Spec2Model ----
(***************************************************************************)
(* SMTP authentication mecanisms (src/authentication.rs) and the stub     *)
(* transport (src/transport/stub/mod.rs).                                  *)
(*                                                                         *)
(* A Rust &str / String / Vec<u8> is a sequence of byte values 0..255.     *)
(* Option<T> is [tag |-> "None"] or [tag |-> "Some", val |-> v];           *)
(* Result<T, E> is [tag |-> "Ok", val |-> v] or [tag |-> "Err", err |-> e].*)
(***************************************************************************)
EXTENDS Integers, Sequences, FiniteSets, TLC

None == [tag |-> "None"]
Some(v) == [tag |-> "Some", val |-> v]
Ok(v) == [tag |-> "Ok", val |-> v]
Err(e) == [tag |-> "Err", err |-> e]

(***************************************************************************)
(* Bounds of the model.                                                    *)
(***************************************************************************)
\* longest username / password drawn
MaxCredLen == 1
\* longest challenge (before its base64 encoding) a server issues
MaxChalLen == 1
\* most send_raw calls made on one transport
MaxSends == 3
\* longest email handed to send_raw
MaxEmailLen == 2

\* the element of a one-element set.  Once({F(x) : x \in {e}}) is F(e) with e
\* computed a single time, however often F reads its argument
Once(S) == CHOOSE x \in S : TRUE

RECURSIVE SeqsUpTo(_, _)
SeqsUpTo(S, n) ==
    IF n = 0 THEN {<<>>}
    ELSE LET shorter == SeqsUpTo(S, n - 1)
         IN  shorter \cup {Append(s, x) : s \in shorter, x \in S}

(***************************************************************************)
(* serialize::base64 (rustc-serialize), as called with base64::STANDARD.   *)
(***************************************************************************)
STANDARD_CHARS ==
    <<65, 66, 67, 68, 69, 70, 71, 72, 73, 74, 75, 76, 77, 78, 79, 80, 81, 82,
      83, 84, 85, 86, 87, 88, 89, 90, 97, 98, 99, 100, 101, 102, 103, 104,
      105, 106, 107, 108, 109, 110, 111, 112, 113, 114, 115, 116, 117, 118,
      119, 120, 121, 122, 48, 49, 50, 51, 52, 53, 54, 55, 56, 57, 43, 47>>

URLSAFE_CHARS == [i \in 1..64 |-> IF i = 63 THEN 45 ELSE IF i = 64 THEN 95
                                  ELSE STANDARD_CHARS[i]]

\* base64::STANDARD: standard alphabet, padding, no line wrapping
STANDARD == [char_set |-> "Standard", pad |-> TRUE, line_length |-> None]

\* to_base64: each 3-byte chunk n = b0 << 16 | b1 << 8 | b2 gives four
\* 6-bit indices; a 1- or 2-byte tail gives 2 or 3 characters, then '='
\* padding when config.pad.  (config.line_length is None in STANDARD, so no
\* newline is ever inserted.)
RECURSIVE ToBase64Chunks(_, _)
ToBase64Chunks(bytes, config) ==
    LET chars == IF config.char_set = "Standard" THEN STANDARD_CHARS
                 ELSE URLSAFE_CHARS
        ch(n, shift) == chars[((n \div shift) % 64) + 1]
        len == Len(bytes)
    IN  IF len = 0 THEN <<>>
        ELSE IF len = 1 THEN
            LET n == bytes[1] * 65536
            IN  <<ch(n, 262144), ch(n, 4096)>>
                \o (IF config.pad THEN <<61, 61>> ELSE <<>>)
        ELSE IF len = 2 THEN
            LET n == bytes[1] * 65536 + bytes[2] * 256
            IN  <<ch(n, 262144), ch(n, 4096), ch(n, 64)>>
                \o (IF config.pad THEN <<61>> ELSE <<>>)
        ELSE
            LET n == bytes[1] * 65536 + bytes[2] * 256 + bytes[3]
            IN  <<ch(n, 262144), ch(n, 4096), ch(n, 64), ch(n, 1)>>
                \o ToBase64Chunks(SubSeq(bytes, 4, len), config)

ToBase64(bytes, config) == Once({ToBase64Chunks(b, config) : b \in {bytes}})

\* the 6-bit value of an input byte of from_base64, or what else it is
DecodeByte(byte) ==
    IF byte >= 65 /\ byte <= 90 THEN byte - 65
    ELSE IF byte >= 97 /\ byte <= 122 THEN byte - 71
    ELSE IF byte >= 48 /\ byte <= 57 THEN byte + 4
    ELSE IF byte = 43 \/ byte = 45 THEN 62
    ELSE IF byte = 47 \/ byte = 95 THEN 63
    ELSE IF byte = 13 \/ byte = 10 THEN 64      \* newline: skipped
    ELSE IF byte = 61 THEN 65                   \* '=': ends the data
    ELSE 66                                     \* invalid

InvalidBase64Byte(byte, idx) ==
    [kind |-> "InvalidBase64Byte", byte |-> byte, idx |-> idx]

InvalidBase64Length == [kind |-> "InvalidBase64Length"]

\* One iteration over the bytes of from_base64; idx is the 0-based index.
\* st.phase tells which of the two loops over the shared iterator takes the
\* byte: "data" (the main loop) or "tail" (after the first '=', where only
\* '=', '\r' and '\n' may follow); "failed" once an Err was returned.
\* In the main loop buf = (buf | code) << 6 per data byte and three bytes
\* are pushed every fourth.  buf is a u32 of which bits 30 and 31 are never
\* read ((buf >> 22) as u8 is the highest read), so it is kept modulo 2^30.
FromBase64Step(st, byte, idx) ==
    IF st.phase = "failed" THEN st
    ELSE IF st.phase = "tail" THEN
        IF byte = 61 \/ byte = 13 \/ byte = 10 THEN st
        ELSE [st EXCEPT !.phase = "failed", !.err = InvalidBase64Byte(byte, idx)]
    ELSE
        LET code == DecodeByte(byte)
        IN  IF code = 64 THEN st
            ELSE IF code = 65 THEN [st EXCEPT !.phase = "tail"]
            ELSE IF code = 66 THEN
                [st EXCEPT !.phase = "failed", !.err = InvalidBase64Byte(byte, idx)]
            ELSE
                LET nbuf == ((st.buf % 16777216) + code) * 64
                IN  IF st.modulus + 1 = 4 THEN
                        [st EXCEPT !.buf = nbuf, !.modulus = 0,
                                   !.r = st.r \o <<(nbuf \div 4194304) % 256,
                                                   (nbuf \div 16384) % 256,
                                                   (nbuf \div 64) % 256>>]
                    ELSE [st EXCEPT !.buf = nbuf, !.modulus = st.modulus + 1]

\* the iterations for s[lo] .. s[hi - 1] in order, by halves (the test on
\* left only makes TLC compute the first half before the second, it is
\* always true)
RECURSIVE FromBase64Iter(_, _, _, _)
FromBase64Iter(st, s, lo, hi) ==
    IF hi - lo = 1 THEN FromBase64Step(st, s[lo], lo - 1)
    ELSE LET mid == (lo + hi) \div 2
             left == FromBase64Iter(st, s, lo, mid)
         IN  IF left.modulus >= 0 THEN FromBase64Iter(left, s, mid, hi) ELSE left

\* from_base64: the loops, then the leftover of an unpadded or padded group
FromBase64Bytes(s) ==
    LET st0 == [phase |-> "data", r |-> <<>>, buf |-> 0, modulus |-> 0,
                err |-> InvalidBase64Length]
        st == IF s = <<>> THEN st0 ELSE FromBase64Iter(st0, s, 1, Len(s) + 1)
    IN  IF st.phase = "failed" THEN Err(st.err)
        ELSE IF st.modulus = 2 THEN Ok(Append(st.r, (st.buf \div 1024) % 256))
        ELSE IF st.modulus = 3 THEN
            Ok(st.r \o <<(st.buf \div 65536) % 256, (st.buf \div 256) % 256>>)
        ELSE IF st.modulus = 0 THEN Ok(st.r)
        ELSE Err(InvalidBase64Length)

FromBase64(s) == Once({FromBase64Bytes(b) : b \in {s}})

(***************************************************************************)
(* serialize::hex::ToHex: two lowercase hexadecimal digits per byte.       *)
(***************************************************************************)
HEX_CHARS == <<48, 49, 50, 51, 52, 53, 54, 55, 56, 57, 97, 98, 99, 100, 101, 102>>

RECURSIVE ToHexDigits(_)
ToHexDigits(bytes) ==
    IF bytes = <<>> THEN <<>>
    ELSE <<HEX_CHARS[(bytes[1] \div 16) + 1], HEX_CHARS[(bytes[1] % 16) + 1]>>
         \o ToHexDigits(Tail(bytes))

ToHex(bytes) == Once({ToHexDigits(b) : b \in {bytes}})

(***************************************************************************)
(* crypto::md5::Md5 and crypto::hmac::Hmac (rust-crypto).  A u32 is the    *)
(* pair <<high 16 bits, low 16 bits>>, so that every operation is exact    *)
(* modulo 2^32.                                                            *)
(***************************************************************************)
\* bitwise and of two n-bit numbers, n a power of two
RECURSIVE AndBits(_, _, _)
AndBits(a, b, n) ==
    IF n = 1 THEN a * b
    ELSE LET h == n \div 2
             p == 2 ^ h
         IN  AndBits(a \div p, b \div p, h) * p + AndBits(a % p, b % p, h)

And16(a, b) == AndBits(a, b, 16)
Or16(a, b) == a + b - And16(a, b)
Xor16(a, b) == a + b - 2 * And16(a, b)

And32(x, y) == <<And16(x[1], y[1]), And16(x[2], y[2])>>
Or32(x, y) == <<Or16(x[1], y[1]), Or16(x[2], y[2])>>
Xor32(x, y) == <<Xor16(x[1], y[1]), Xor16(x[2], y[2])>>
Not32(x) == <<65535 - x[1], 65535 - x[2]>>

\* wrapping_add
Add32(x, y) ==
    LET lo == x[2] + y[2]
    IN  <<(x[1] + y[1] + (lo \div 65536)) % 65536, lo % 65536>>

\* rotate_left
RotL32(x, s) ==
    LET y == IF s >= 16 THEN <<x[2], x[1]>> ELSE x
        r == s % 16
        p == 2 ^ r
        q == 2 ^ (16 - r)
    IN  IF r = 0 THEN y
        ELSE <<((y[1] * p) % 65536) + (y[2] \div q),
               ((y[2] * p) % 65536) + (y[1] \div q)>>

\* floor(2^32 * abs(sin(i + 1))), i = 0..63
MD5_K ==
    <<<<55146, 42104>>, <<59591, 46934>>, <<9248, 28891>>, <<49597, 52974>>,
      <<62844, 4015>>, <<18311, 50730>>, <<43056, 17939>>, <<64838, 38145>>,
      <<27008, 39128>>, <<35652, 63407>>, <<65535, 23473>>, <<35164, 55230>>,
      <<27536, 4386>>, <<64920, 29075>>, <<42617, 17294>>, <<18868, 2081>>,
      <<63006, 9570>>, <<49216, 45888>>, <<9822, 23121>>, <<59830, 51114>>,
      <<54831, 4189>>, <<580, 5203>>, <<55457, 59009>>, <<59347, 64456>>,
      <<8673, 52710>>, <<49975, 2006>>, <<62677, 3463>>, <<17754, 5357>>,
      <<43491, 59653>>, <<64751, 41976>>, <<26479, 729>>, <<36138, 19594>>,
      <<65530, 14658>>, <<34673, 63105>>, <<28061, 24866>>, <<64997, 14348>>,
      <<42174, 59972>>, <<19422, 53161>>, <<63163, 19296>>, <<48831, 48240>>,
      <<10395, 32454>>, <<60065, 10234>>, <<54511, 12421>>, <<1160, 7429>>,
      <<55764, 53305>>, <<59099, 39397>>, <<8098, 31992>>, <<50348, 22117>>,
      <<62505, 8772>>, <<17194, 65431>>, <<43924, 9127>>, <<64659, 41017>>,
      <<25947, 22979>>, <<36620, 52370>>, <<65519, 62589>>, <<34180, 24017>>,
      <<28584, 32335>>, <<65068, 59104>>, <<41729, 17172>>, <<19976, 4513>>,
      <<63315, 32386>>, <<48442, 62005>>, <<10967, 53947>>, <<60294, 54161>>>>

\* per-round left rotations
MD5_S ==
    <<7, 12, 17, 22, 7, 12, 17, 22, 7, 12, 17, 22, 7, 12, 17, 22,
      5, 9, 14, 20, 5, 9, 14, 20, 5, 9, 14, 20, 5, 9, 14, 20,
      4, 11, 16, 23, 4, 11, 16, 23, 4, 11, 16, 23, 4, 11, 16, 23,
      6, 10, 15, 21, 6, 10, 15, 21, 6, 10, 15, 21, 6, 10, 15, 21>>

\* initial state 0x67452301, 0xefcdab89, 0x98badcfe, 0x10325476
MD5_INIT == <<<<26437, 8961>>, <<61389, 43913>>, <<39098, 56574>>, <<4146, 21622>>>>

\* one of the 64 operations on the state st = <<a, b, c, d>>; m: the 16
\* little-endian words of the block
Md5Step(st, m, i) ==
    LET a == st[1]
        b == st[2]
        c == st[3]
        d == st[4]
        f == IF i < 16 THEN Or32(And32(b, c), And32(Not32(b), d))
             ELSE IF i < 32 THEN Or32(And32(b, d), And32(c, Not32(d)))
             ELSE IF i < 48 THEN Xor32(Xor32(b, c), d)
             ELSE Xor32(c, Or32(b, Not32(d)))
        g == IF i < 16 THEN i
             ELSE IF i < 32 THEN (5 * i + 1) % 16
             ELSE IF i < 48 THEN (3 * i + 5) % 16
             ELSE (7 * i) % 16
        sum == Add32(Add32(a, f), Add32(MD5_K[i + 1], m[g + 1]))
    IN  <<d, Add32(b, RotL32(sum, MD5_S[i + 1])), b, c>>

\* operations lo .. hi - 1 in order, by halves (the test on left only makes
\* TLC compute the first half before the second, it is always true)
RECURSIVE Md5Rounds(_, _, _, _)
Md5Rounds(st, m, lo, hi) ==
    IF hi - lo = 1 THEN Md5Step(st, m, lo)
    ELSE LET mid == (lo + hi) \div 2
             left == Md5Rounds(st, m, lo, mid)
         IN  IF left[1][1] >= 0 THEN Md5Rounds(left, m, mid, hi) ELSE left

\* process one 64-byte block: the 16 little-endian words of the block, the 64
\* operations, then the wrapping addition of the previous state
Md5ProcessBlock(st, block) ==
    LET w(j) == <<block[4 * j - 1] + 256 * block[4 * j],
                  block[4 * j - 3] + 256 * block[4 * j - 2]>>
        m == <<w(1), w(2), w(3), w(4), w(5), w(6), w(7), w(8),
               w(9), w(10), w(11), w(12), w(13), w(14), w(15), w(16)>>
        out == Md5Rounds(st, m, 0, 64)
    IN  <<Add32(st[1], out[1]), Add32(st[2], out[2]),
          Add32(st[3], out[3]), Add32(st[4], out[4])>>

RECURSIVE Md5Blocks(_, _)
Md5Blocks(st, data) ==
    IF data = <<>> THEN st
    ELSE Md5Blocks(Md5ProcessBlock(st, SubSeq(data, 1, 64)),
                   SubSeq(data, 65, Len(data)))

\* 0x80, zeros up to 56 modulo 64, then the bit length as a little-endian
\* u64 (its four high bytes are zero for any message under 2^28 bytes)
Md5Pad(msg) ==
    LET len == Len(msg)
        zeros == (119 - (len % 64)) % 64
        bits == len * 8
    IN  msg \o <<128>> \o [j \in 1..zeros |-> 0]
            \o [j \in 1..8 |-> IF j <= 4 THEN (bits \div (256 ^ (j - 1))) % 256
                                ELSE 0]

\* the digest: the four state words, little-endian
Md5Result(st) ==
    LET le(w) == <<w[2] % 256, w[2] \div 256, w[1] % 256, w[1] \div 256>>
    IN  le(st[1]) \o le(st[2]) \o le(st[3]) \o le(st[4])

Md5(msg) ==
    Once({Md5Result(st) :
            st \in {Md5Blocks(MD5_INIT, padded) : padded \in {Md5Pad(m) : m \in {msg}}}})

XorByte(a, b) == AndBits(a, 255 - b, 8) + AndBits(255 - a, b, 8)

\* the key of Hmac::new(Md5::new(), key): a key longer than the 64-byte block
\* is hashed first, then zero-padded to the block
HmacExpandKey(key) ==
    LET k0 == IF Len(key) > 64 THEN Md5(key) ELSE key
    IN  k0 \o [j \in 1..(64 - Len(k0)) |-> 0]

\* the expanded key xored with the inner (0x36) or outer (0x5c) pad byte
HmacXorKey(k, pad) == [j \in 1..64 |-> XorByte(k[j], pad)]

\* Hmac::new(Md5::new(), key); input(msg); result().code()
HmacMd5(key, msg) ==
    Once({Md5(HmacXorKey(k, 92) \o Md5(HmacXorKey(k, 54) \o msg)) :
            k \in {HmacExpandKey(key)}})

(***************************************************************************)
(* The arguments the callers pass.                                         *)
(***************************************************************************)
\* 'u'
UserBytes == {117}
\* 'p'
PassBytes == {112}
\* '<' and 0xff
ChalBytes == {60, 255}

Usernames == SeqsUpTo(UserBytes, MaxCredLen)
Passwords == SeqsUpTo(PassBytes, MaxCredLen)

\* what a server encodes into a challenge
ChallengeData == SeqsUpTo(ChalBytes, MaxChalLen)

\* challenges as a conforming server sends them
WellFormedChallenges == {ToBase64(b, STANDARD) : b \in ChallengeData}

\* "!", "Y", "YQ=!", "YWJj!": a byte outside the alphabet, a lone character,
\* data after the padding, a bad byte after a complete group
MalformedChallenges ==
    {<<33>>, <<89>>, <<89, 81, 61, 33>>, <<89, 87, 74, 106, 33>>}

\* "YQ": unpadded
UnpaddedChallenges == {<<89, 81>>}

ChallengeTexts ==
    WellFormedChallenges \cup MalformedChallenges \cup UnpaddedChallenges

Challenges == {None} \cup {Some(c) : c \in ChallengeTexts}

\* the keyed digests of the arguments above, computed once
HmacKnownInputs ==
    {<<k, FromBase64(c).val>> :
        k \in Passwords, c \in {t \in ChallengeTexts : FromBase64(t).tag = "Ok"}}

HmacKnown == {<<i[1], i[2], HmacMd5(i[1], i[2])>> : i \in HmacKnownInputs}

(***************************************************************************)
(* src/authentication.rs                                                   *)
(***************************************************************************)
\* the crate's NUL: the string made of the single byte 0
NUL == <<0>>

ClientError(msg) == [kind |-> "ClientError", msg |-> msg]
ChallengeParsingError(error) == [kind |-> "ChallengeParsingError", cause |-> error]

PlainSupportsInitialResponse == TRUE

\* variant: a NUL after the password as well
PlainResponseTrailingNul(username, password, challenge) ==
    IF challenge.tag = "Some" THEN
        Err(ClientError("This mecanism does not expect a challenge"))
    ELSE
        Ok(ToBase64(NUL \o username \o NUL \o password \o NUL, STANDARD))

\* variant: an empty challenge counts as no challenge
PlainResponseEmptyChallenge(username, password, challenge) ==
    IF challenge.tag = "Some" /\ challenge.val # <<>> THEN
        Err(ClientError("This mecanism does not expect a challenge"))
    ELSE
        Ok(ToBase64(NUL \o username \o NUL \o password, STANDARD))

\* Plain::response
PlainResponse(username, password, challenge) ==
    IF challenge.tag = "Some" THEN
        Err(ClientError("This mecanism does not expect a challenge"))
    ELSE
        Ok(ToBase64(NUL \o username \o NUL \o password, STANDARD))

\* variant: the flag of the other mecanism
CramMd5SupportsInitialResponseTrue == TRUE

CramMd5SupportsInitialResponse == FALSE

\* Hmac::new(Md5::new(), password.as_bytes()); hmac.input(&decoded_challenge);
\* hmac.result().code()
Hmac(key, msg) ==
    IF <<key, msg>> \in HmacKnownInputs
    THEN (CHOOSE t \in HmacKnown : t[1] = key /\ t[2] = msg)[3]
    ELSE HmacMd5(key, msg)

\* variant: the digest is taken over the challenge as received, not decoded
CramMd5ResponseOverEncoded(username, password, challenge) ==
    IF challenge.tag = "None" THEN
        Err(ClientError("This mecanism does expect a challenge"))
    ELSE
        LET decoded == FromBase64(challenge.val)
        IN  IF decoded.tag = "Err" THEN Err(ChallengeParsingError(decoded.err))
            ELSE Ok(ToBase64(username \o <<32>>
                                \o ToHex(Hmac(password, challenge.val)), STANDARD))

\* variant: a challenge that does not decode is answered as an empty one
CramMd5ResponseBestEffort(username, password, challenge) ==
    IF challenge.tag = "None" THEN
        Err(ClientError("This mecanism does expect a challenge"))
    ELSE
        LET decoded == FromBase64(challenge.val)
            decoded_challenge == IF decoded.tag = "Err" THEN <<>> ELSE decoded.val
        IN  Ok(ToBase64(username \o <<32>>
                           \o ToHex(Hmac(password, decoded_challenge)), STANDARD))

\* variant: no challenge counts as an empty challenge
CramMd5ResponseDefaultChallenge(username, password, challenge) ==
    LET decoded == FromBase64(IF challenge.tag = "None" THEN <<>> ELSE challenge.val)
    IN  IF decoded.tag = "Err" THEN Err(ChallengeParsingError(decoded.err))
        ELSE Ok(ToBase64(username \o <<32>>
                            \o ToHex(Hmac(password, decoded.val)), STANDARD))

\* variant: an empty password is refused before the challenge is looked at
CramMd5ResponseEmptyPassword(username, password, challenge) ==
    IF password = <<>> THEN Err(ClientError("This mecanism does expect a password"))
    ELSE IF challenge.tag = "None" THEN
        Err(ClientError("This mecanism does expect a challenge"))
    ELSE
        LET decoded == FromBase64(challenge.val)
        IN  IF decoded.tag = "Err" THEN Err(ChallengeParsingError(decoded.err))
            ELSE Ok(ToBase64(username \o <<32>>
                                \o ToHex(Hmac(password, decoded.val)), STANDARD))

\* CramMd5::response
CramMd5Response(username, password, challenge) ==
    IF challenge.tag = "None" THEN
        Err(ClientError("This mecanism does expect a challenge"))
    ELSE
        LET encoded_challenge == challenge.val
            decoded == FromBase64(encoded_challenge)
        IN  IF decoded.tag = "Err" THEN Err(ChallengeParsingError(decoded.err))
            ELSE
                LET decoded_challenge == decoded.val
                    code == Hmac(password, decoded_challenge)
                IN  Ok(ToBase64(username \o <<32>> \o ToHex(code), STANDARD))

\* mod test
test_plain ==
    PlainResponse(<<117, 115, 101, 114, 110, 97, 109, 101>>,
                  <<112, 97, 115, 115, 119, 111, 114, 100>>, None)
    = Ok(<<65, 72, 86, 122, 90, 88, 74, 117, 89, 87, 49, 108, 65, 72, 66, 104,
           99, 51, 78, 51, 98, 51, 74, 107>>)

test_cram_md5 ==
    CramMd5Response(<<97, 108, 105, 99, 101>>,
                    <<119, 111, 110, 100, 101, 114, 108, 97, 110, 100>>,
                    Some(<<80, 68, 69, 51, 79, 68, 107, 122, 76, 106, 69, 122,
                           77, 106, 65, 50, 78, 122, 107, 120, 77, 106, 78, 65,
                           100, 71, 86, 122, 99, 50, 86, 121, 89, 87, 78, 48,
                           76, 110, 78, 49, 99, 50, 70, 116, 76, 109, 108, 117,
                           80, 103, 61, 61>>))
    = Ok(<<89, 87, 120, 112, 89, 50, 85, 103, 78, 106, 82, 105, 77, 109, 69,
           48, 77, 50, 77, 120, 90, 106, 90, 108, 90, 68, 89, 52, 77, 68, 90,
           104, 79, 84, 103, 119, 79, 84, 69, 48, 90, 84, 73, 122, 90, 84, 99,
           49, 90, 106, 65, 61>>)

(***************************************************************************)
(* src/transport/stub/mod.rs                                               *)
(***************************************************************************)
Unit == <<>>

\* StubResult = Result<(), ()>
StubResults == {Ok(Unit), Err(Unit)}

\* StubTransport::new
StubTransportNew(response) == [response |-> response]

\* StubTransport::new_positive
StubTransportNewPositive == [response |-> Ok(Unit)]

\* variant: every send succeeds
StubSendRawPositive(self, envelope, email) == Ok(Unit)

\* send_raw(&self, _envelope, _email)
StubSendRaw(self, envelope, email) == self.response

Envelopes == {"nobody -> hei", "nobody -> yuin", "yuin -> hei"}
\* 'B' and '\n'
Emails == SeqsUpTo({66, 10}, MaxEmailLen)

(***************************************************************************)
(* State.                                                                  *)
(***************************************************************************)
VARIABLES
    call,       \* the last response() call: mecanism and arguments
    result,     \* what it returned
    before,     \* the outcome of the call before it, when the two differ in
                \* nothing but the credentials (NoResult otherwise)
    flag,       \* the last supports_initial_response() call and its value
    transport,  \* the StubTransport
    made,       \* how the transport was constructed
    sent,       \* the last send_raw call: envelope and email
    ret,        \* what it returned
    sends       \* send_raw calls on this transport so far

vars == <<call, result, before, flag, transport, made, sent, ret, sends>>
authVars == <<call, result, before, flag>>
stubVars == <<transport, made, sent, ret, sends>>

NoCall == [mecanism |-> "none"]
NoResult == [tag |-> "none"]
NoFlag == [mecanism |-> "none"]
NoSend == [envelope |-> "none"]

Init ==
    /\ call = NoCall
    /\ result = NoResult
    /\ before = NoResult
    /\ flag = NoFlag
    /\ transport = StubTransportNewPositive
    /\ made = [by |-> "new_positive"]
    /\ sent = NoSend
    /\ ret = NoResult
    /\ sends = 0

(***************************************************************************)
(* The mecanisms: no state of their own, every call is recorded.           *)
(***************************************************************************)
\* what the previous call came to, kept when the new call has its mecanism
\* and challenge but other credentials: success, or the error it returned
Before(mecanism, username, password, challenge) ==
    IF /\ call.mecanism = mecanism
       /\ call.challenge = challenge
       /\ <<call.username, call.password>> # <<username, password>>
    THEN IF result.tag = "Ok" THEN [tag |-> "Ok"] ELSE result
    ELSE NoResult

PlainResponseCall(username, password, challenge) ==
    /\ call' = [mecanism |-> "Plain", username |-> username,
                password |-> password, challenge |-> challenge]
    /\ result' = PlainResponse(username, password, challenge)
    /\ before' = Before("Plain", username, password, challenge)
    /\ UNCHANGED <<flag, stubVars>>

CramMd5ResponseCall(username, password, challenge) ==
    /\ call' = [mecanism |-> "CramMd5", username |-> username,
                password |-> password, challenge |-> challenge]
    /\ result' = CramMd5Response(username, password, challenge)
    /\ before' = Before("CramMd5", username, password, challenge)
    /\ UNCHANGED <<flag, stubVars>>

PlainSupportsInitialResponseCall ==
    /\ flag' = [mecanism |-> "Plain", value |-> PlainSupportsInitialResponse]
    /\ UNCHANGED <<call, result, before, stubVars>>

CramMd5SupportsInitialResponseCall ==
    /\ flag' = [mecanism |-> "CramMd5", value |-> CramMd5SupportsInitialResponse]
    /\ UNCHANGED <<call, result, before, stubVars>>

Next ==
    \/ \E u \in Usernames, p \in Passwords, c \in Challenges :
          PlainResponseCall(u, p, c)
    \/ \E u \in Usernames, p \in Passwords, c \in Challenges :
          CramMd5ResponseCall(u, p, c)
    \/ PlainSupportsInitialResponseCall
    \/ CramMd5SupportsInitialResponseCall

Spec == Init /\ [][Next]_vars

(***************************************************************************)
(* The stub transport.                                                     *)
(***************************************************************************)
New(response) ==
    /\ transport' = StubTransportNew(response)
    /\ made' = [by |-> "new", response |-> response]
    /\ sent' = NoSend
    /\ ret' = NoResult
    /\ sends' = 0
    /\ UNCHANGED authVars

NewPositive ==
    /\ transport' = StubTransportNewPositive
    /\ made' = [by |-> "new_positive"]
    /\ sent' = NoSend
    /\ ret' = NoResult
    /\ sends' = 0
    /\ UNCHANGED authVars

SendRaw(envelope, email) ==
    /\ sends < MaxSends
    /\ ret' = StubSendRaw(transport, envelope, email)
    /\ sent' = [envelope |-> envelope, email |-> email]
    /\ sends' = sends + 1
    /\ UNCHANGED <<transport, made, authVars>>

StubNext ==
    \/ \E r \in StubResults : New(r)
    \/ NewPositive
    \/ \E e \in Envelopes, m \in Emails : SendRaw(e, m)

StubSpec == Init /\ [][StubNext]_vars

(***************************************************************************)
(* Properties.                                                             *)
(***************************************************************************)
StandardAlphabet == {STANDARD_CHARS[i] : i \in 1..64}

\* s has the shape of the padded standard base64 encoding of n bytes
IsPaddedStandard(s, n) ==
    LET pad == (3 - (n % 3)) % 3
    IN  /\ Len(s) = 4 * ((n + 2) \div 3)
        /\ \A i \in 1..Len(s) :
              IF i > Len(s) - pad THEN s[i] = 61 ELSE s[i] \in StandardAlphabet

\* s is 32 lowercase hexadecimal digits
IsLowerHex32(s) ==
    /\ Len(s) = 32
    /\ \A i \in 1..Len(s) : s[i] \in (48..57) \cup (97..102)

IsClientError(r) == r.tag = "Err" /\ r.err.kind = "ClientError"
IsChallengeParsingError(r) == r.tag = "Err" /\ r.err.kind = "ChallengeParsingError"

\* C1: Plain::response without a challenge always succeeds, and returns the
\* padded standard base64 of exactly: one NUL, the username, one NUL, the
\* password (nothing after it).  The test of the source is one instance.
C1_PlainEncoding ==
    /\ test_plain
    /\ (call.mecanism = "Plain" /\ call.challenge = None) =>
          LET payload == <<0>> \o call.username \o <<0>> \o call.password
          IN  /\ result.tag = "Ok"
              /\ IsPaddedStandard(result.val, Len(payload))
              /\ FromBase64(result.val) = Ok(payload)
              /\ result.val = ToBase64(payload, STANDARD)

C1_Witness ==
    /\ call.mecanism = "Plain"
    /\ call.challenge = None
    /\ call.username = <<>>
    /\ call.password # <<>>
    /\ result.tag = "Ok"

\* C2: CramMd5::response with a challenge that is the standard base64 of some
\* bytes b always succeeds, and returns the base64 of: the username, one
\* space, the 32 lowercase hexadecimal digits of the keyed digest with the
\* password as key and b (not its encoding) as message.  The test of the
\* source is one instance.
C2_CramMd5Encoding ==
    /\ test_cram_md5
    /\ \A b \in ChallengeData :
          (call.mecanism = "CramMd5" /\ call.challenge = Some(ToBase64(b, STANDARD))) =>
              LET hex == ToHex(HmacMd5(call.password, b))
                  payload == call.username \o <<32>> \o hex
              IN  /\ IsLowerHex32(hex)
                  /\ result.tag = "Ok"
                  /\ IsPaddedStandard(result.val, Len(payload))
                  /\ FromBase64(result.val) = Ok(payload)
                  /\ result.val = ToBase64(payload, STANDARD)

C2_Witness ==
    /\ call.mecanism = "CramMd5"
    /\ call.challenge = Some(ToBase64(<<60>>, STANDARD))
    /\ call.username # <<>>
    /\ call.password # <<>>
    /\ result.tag = "Ok"

\* C3: a challenge that does not decode makes CramMd5::response fail with
\* ChallengeParsingError holding the decoder's error, never with ClientError
\* and never with a response; ClientError is returned only without challenge.
C3_DecodeFailure ==
    (call.mecanism = "CramMd5") =>
        /\ (call.challenge.tag = "Some" /\ FromBase64(call.challenge.val).tag = "Err") =>
              result = Err(ChallengeParsingError(FromBase64(call.challenge.val).err))
        /\ IsClientError(result) => call.challenge = None

\* "YWJj!": three bytes decode before the bad one
C3_Witness ==
    /\ call.mecanism = "CramMd5"
    /\ call.challenge = Some(<<89, 87, 74, 106, 33>>)
    /\ IsChallengeParsingError(result)

\* C4: Plain::response with any challenge, empty or malformed ones included,
\* fails with ClientError.
C4_PlainRejectsChallenge ==
    (call.mecanism = "Plain" /\ call.challenge.tag = "Some") => IsClientError(result)

C4_Witness ==
    /\ call.mecanism = "Plain"
    /\ call.challenge = Some(<<>>)
    /\ IsClientError(result)

\* C5: CramMd5::response without a challenge fails with ClientError, whatever
\* the credentials.
C5_CramMd5NeedsChallenge ==
    (call.mecanism = "CramMd5" /\ call.challenge = None) => IsClientError(result)

C5_Witness ==
    /\ call.mecanism = "CramMd5"
    /\ call.challenge = None
    /\ call.password # <<>>
    /\ IsClientError(result)

\* C6: the ClientError of Plain::response for a present challenge carries
\* the text "This mechanism does not expect a challenge".
C6_PlainErrorText ==
    (call.mecanism = "Plain" /\ call.challenge.tag = "Some") =>
        result = Err(ClientError("This mechanism does not expect a challenge"))

\* C7: supports_initial_response() is fixed per mecanism (Plain: true,
\* CramMd5: false) and tells what response() does: a mecanism returns
\* ClientError exactly when it is given a challenge and supports an initial
\* response, or is given none and does not; without challenge, it succeeds
\* exactly when it supports an initial response.
C7_FlagAgreesWithResponse ==
    /\ flag.mecanism = "Plain" => flag.value = TRUE
    /\ flag.mecanism = "CramMd5" => flag.value = FALSE
    /\ (call.mecanism # "none" /\ flag.mecanism = call.mecanism) =>
          /\ IsClientError(result) <=> ((call.challenge.tag = "Some") <=> flag.value)
          /\ (call.challenge = None) => ((result.tag = "Ok") <=> flag.value)

C7_Witness ==
    /\ flag.mecanism = "CramMd5"
    /\ call.mecanism = "CramMd5"
    /\ call.challenge = None
    /\ result.tag = "Err"

\* C9: two calls of a mecanism with the same challenge argument and other
\* credentials both succeed, or both fail with the same error value.
C9_ErrorsIgnoreCredentials ==
    (before # NoResult) =>
        \/ before.tag = "Ok" /\ result.tag = "Ok"
        \/ before.tag = "Err" /\ result = before

C9_Witness ==
    /\ call.mecanism = "CramMd5"
    /\ call.password # <<>>
    /\ IsChallengeParsingError(before)
    /\ IsChallengeParsingError(result)

\* C10: a StubTransport returns from every send_raw the response it was
\* constructed with (success after new_positive), and keeps that response.
C10_StubReturnsGivenResponse ==
    LET given == IF made.by = "new" THEN made.response ELSE Ok(Unit)
    IN  /\ transport.response = given
        /\ sends > 0 => ret = given

C10_Witness ==
    /\ made.by = "new"
    /\ made.response = Err(Unit)
    /\ sends = MaxSends
    /\ ret = Err(Unit)

====
